---- MODULE Spec2Model ----
(***************************************************************************)
(* Model of the TypeSpeedAI typing simulator (bots/typespeed_bot.py) and   *)
(* of the keystroke feature extractor (analysis/feature_extractor.py).     *)
(*                                                                         *)
(* Four specifications share the variables below; each leaves the other    *)
(* parts of the state at their initial values:                             *)
(*   SpecGen   type_text_profile: one typing run against a page driver     *)
(*   SpecMain  main: the loop over iterations 1..N (FairSpecMain adds the  *)
(*             progress of a sequential program)                           *)
(*   SpecExt   the extractor's batch loop over the stored run records      *)
(*   SpecAc    autocorr_lag1 applied to one series                         *)
(*                                                                         *)
(* In SpecGen and SpecMain time is counted in milliseconds, the unit of the *)
(* delay arguments; the stored records of SpecExt count it in hundredths   *)
(* of a second.                                                            *)
(***************************************************************************)
EXTENDS Integers, Sequences, FiniteSets, TLC

VARIABLES
    \* ---- type_text_profile ----
    text,          \* the target text, a sequence of one-character strings
    profile,       \* "superhuman" | "bot_obvious" | "human_like"
    args,          \* [max_chars, delay_min, delay_max, fixed_delay_ms]
    gen_pc,        \* "idle" | "focus" | "loop" | "returned" | "raised"
    focus,         \* "pending" | "input" | "body" | "none": what got the focus
    log,           \* the keystroke log
    typed_count,
    i,
    now,           \* the clock after the last statement, in ticks
    exc,           \* "none" or what type_text_profile raised
    \* ---- main ----
    main_pc,       \* "idle" | "for" | "run" | "sleep" | "handler" | "done"
    iterations,    \* args.iterations
    iter,          \* the loop variable of main
    started,       \* the iteration indices passed to run_iteration, in order
    outcomes,      \* what each started iteration ended with
    interrupted,   \* a KeyboardInterrupt was delivered
    \* ---- feature_extractor ----
    raw_dir,       \* the stored run records, in the sorted order of their paths
    ext_pc,        \* "idle" | "loop" | "write" | "done" | "crashed"
    file_idx,      \* how many records the batch loop has consumed
    rows,          \* the feature rows built so far
    csv,           \* the rows of analysis/features.csv, or NoFile
    \* ---- autocorr_lag1 ----
    series,        \* the argument xs, a sequence of floating-point numbers
    ac_pc,         \* "idle" | "call" | "returned"
    ac_result      \* the value returned

genVars  == <<text, profile, args, gen_pc, focus, log, typed_count, i, now, exc>>
mainVars == <<main_pc, iterations, iter, started, outcomes, interrupted>>
extVars  == <<raw_dir, ext_pc, file_idx, rows, csv>>
acVars   == <<series, ac_pc, ac_result>>
vars     == <<genVars, mainVars, extVars, acVars>>

----------------------------------------------------------------------------
(* Bounds and input domains *)

MaxTextLen == 2
MaxIterations == 3
MaxFiles == 3
MaxSeriesLen == 3
MantissaBits == 3
MaxCap == 2

\* The texts typed: the prefixes of a sample holding a lowercase letter, an
\* uppercase letter, a space and a digit.
SampleText == <<"a", "B", " ", "7", "c">>
Texts == { SubSeq(SampleText, 1, n) : n \in 0..MaxTextLen }

Profiles == {"superhuman", "bot_obvious", "human_like"}

\* --delay_min, --delay_max, --fixed_delay_ms (milliseconds), taken
\* non-negative: time.sleep refuses a negative length.
DelayArgs == { [delay_min |-> 1, delay_max |-> 1, fixed_delay_ms |-> 1],
               [delay_min |-> 0, delay_max |-> 0, fixed_delay_ms |-> 0] }

\* Ticks that pass between two consecutive statements: the clock may not
\* advance at all between two reads.
ClockSteps == {0, 1}

\* What one emission does: the primary primitive delivers the key, or it
\* throws and the dispatched fallback event goes through, or both throw.
EmitOutcomes == {"ok", "fallback", "throws"}

Min(a, b) == IF a <= b THEN a ELSE b
Max(a, b) == IF a >= b THEN a ELSE b

----------------------------------------------------------------------------
(* bots/typespeed_bot.py: type_text_profile *)

Lowercase == {"a", "b", "c", "d", "e", "f", "g", "h", "i", "j", "k", "l", "m",
              "n", "o", "p", "q", "r", "s", "t", "u", "v", "w", "x", "y", "z"}

Keypress(ch, ts)  == [key |-> ch, timestamp |-> ts, action |-> "keypress"]
BackspaceEvent(ts) == [key |-> "Backspace", timestamp |-> ts, action |-> "backspace"]

\* random.uniform(delay_min, delay_max): any value between the two arguments,
\* whichever is the larger.
UniformDelays == Min(args.delay_min, args.delay_max) .. Max(args.delay_min, args.delay_max)

\* the while condition of the typing loop
LoopGuard == i < Len(text) /\ typed_count < args.max_chars

\* the character at the 0-based position k
CharAt(k) == text[k + 1]

\* do_type_char(ch): the clock is read, the key is emitted, and the event is
\* appended unless the fallback dispatch threw as well.
DoTypeChar(lg, ch, ts, out) ==
    IF out = "throws" THEN lg ELSE Append(lg, Keypress(ch, ts))

\* the backspace of a correction: same shape, logged with action "backspace"
DoBackspace(lg, ts, out) ==
    IF out = "throws" THEN lg ELSE Append(lg, BackspaceEvent(ts))

\* a mistake at any position, the last one included
MistakeAllowedAnywhere == TRUE

\* `random.random() < 0.02 and i + 1 < len(text)`: the draw can come out
\* either way, the second conjunct is decided by the position.
MistakeAllowed == i + 1 < Len(text)

\* An exception leaves type_text_profile: the log built so far is lost to the
\* caller, the model keeps it to show what was emitted.
Raise(lg, ts, what) ==
    /\ gen_pc' = "raised"
    /\ exc' = what
    /\ log' = lg
    /\ now' = ts
    /\ UNCHANGED <<typed_count, i>>

\* typed_count += 1; i += 1; then the sleep of the profile
Advance(lg, ts, delay) ==
    /\ log' = lg
    /\ typed_count' = typed_count + 1
    /\ i' = i + 1
    /\ now' = ts + delay
    /\ UNCHANGED <<gen_pc, exc>>

\* Lines 105-116: click the hidden input, else click the body, else go on.
Focus ==
    /\ gen_pc = "focus"
    /\ \E f \in {"input", "body", "none"} : focus' = f
    /\ gen_pc' = "loop"
    /\ UNCHANGED <<text, profile, args, log, typed_count, i, now, exc, mainVars, extVars, acVars>>

\* Lines 137-141
TypeSuperhuman ==
    /\ gen_pc = "loop" /\ LoopGuard /\ profile = "superhuman"
    /\ \E j \in ClockSteps, o \in EmitOutcomes :
         LET ts == now + j IN
         IF o = "throws"
           THEN Raise(log, ts, "EmissionError")
           ELSE Advance(DoTypeChar(log, CharAt(i), ts, o), ts, 0)
    /\ UNCHANGED <<text, profile, args, focus, mainVars, extVars, acVars>>

\* Lines 142-146
TypeBotObvious ==
    /\ gen_pc = "loop" /\ LoopGuard /\ profile = "bot_obvious"
    /\ \E j \in ClockSteps, o \in EmitOutcomes :
         LET ts == now + j IN
         IF o = "throws"
           THEN Raise(log, ts, "EmissionError")
           ELSE Advance(DoTypeChar(log, CharAt(i), ts, o), ts, args.fixed_delay_ms)
    /\ UNCHANGED <<text, profile, args, focus, mainVars, extVars, acVars>>

\* Lines 164-168: human_like without a mistake
TypeHumanPlain ==
    /\ gen_pc = "loop" /\ LoopGuard /\ profile = "human_like"
    /\ \E j \in ClockSteps, o \in EmitOutcomes :
         LET ts == now + j IN
         IF o = "throws"
           THEN Raise(log, ts, "EmissionError")
           ELSE \E d \in UniformDelays :
                  Advance(DoTypeChar(log, CharAt(i), ts, o), ts, d)
    /\ UNCHANGED <<text, profile, args, focus, mainVars, extVars, acVars>>

\* Lines 149-163 and 168: a wrong letter, a delay, Backspace, the right key
TypeHumanMistake ==
    /\ gen_pc = "loop" /\ LoopGuard /\ profile = "human_like"
    /\ MistakeAllowed
    /\ \E wrong \in Lowercase, j1 \in ClockSteps, o1 \in EmitOutcomes :
         LET ts1 == now + j1
             lg1 == DoTypeChar(log, wrong, ts1, o1)
         IN
         IF o1 = "throws"
           THEN Raise(lg1, ts1, "EmissionError")
           ELSE \E d1 \in UniformDelays, j2 \in ClockSteps, o2 \in EmitOutcomes :
                  LET ts2 == ts1 + d1 + j2
                      lg2 == DoBackspace(lg1, ts2, o2)
                  IN
                  IF o2 = "throws"
                    THEN Raise(lg2, ts2, "EmissionError")
                    ELSE \E j3 \in ClockSteps, o3 \in EmitOutcomes :
                           LET ts3 == ts2 + j3
                               lg3 == DoTypeChar(lg2, CharAt(i), ts3, o3)
                           IN
                           IF o3 = "throws"
                             THEN Raise(lg3, ts3, "EmissionError")
                             ELSE \E d2 \in UniformDelays : Advance(lg3, ts3, d2)
    /\ UNCHANGED <<text, profile, args, focus, mainVars, extVars, acVars>>

\* Line 169: the loop condition fails and the log is returned
ReturnLog ==
    /\ gen_pc = "loop" /\ ~LoopGuard
    /\ gen_pc' = "returned"
    /\ UNCHANGED <<text, profile, args, focus, log, typed_count, i, now, exc, mainVars, extVars, acVars>>

NoFile == "no file"

ExtIdle ==
    /\ raw_dir = <<>> /\ ext_pc = "idle" /\ file_idx = 0
    /\ rows = <<>> /\ csv = NoFile

AcIdle == series = <<>> /\ ac_pc = "idle" /\ ac_result = <<0, 1>>

MainIdle ==
    /\ main_pc = "idle" /\ iterations = 0 /\ iter = 0
    /\ started = <<>> /\ outcomes = <<>> /\ interrupted = FALSE

InitGen ==
    /\ text \in Texts
    /\ profile \in Profiles
    /\ \E m \in 0..MaxCap, d \in DelayArgs :
         args = [max_chars |-> m, delay_min |-> d.delay_min,
                 delay_max |-> d.delay_max, fixed_delay_ms |-> d.fixed_delay_ms]
    /\ gen_pc = "focus"
    /\ focus = "pending"
    /\ log = <<>>
    /\ typed_count = 0
    /\ i = 0
    /\ now = 0
    /\ exc = "none"
    /\ MainIdle
    /\ ExtIdle
    /\ AcIdle

NextGen ==
    \/ Focus
    \/ TypeSuperhuman
    \/ TypeBotObvious
    \/ TypeHumanPlain
    \/ TypeHumanMistake
    \/ ReturnLog

SpecGen == InitGen /\ [][NextGen]_vars

----------------------------------------------------------------------------
(* bots/typespeed_bot.py: main *)

GenIdle ==
    /\ text = <<>> /\ profile = "human_like"
    /\ args = [max_chars |-> 0, delay_min |-> 0, delay_max |-> 0, fixed_delay_ms |-> 0]
    /\ gen_pc = "idle" /\ focus = "pending" /\ log = <<>>
    /\ typed_count = 0 /\ i = 0 /\ now = 0 /\ exc = "none"

\* What run_iteration hands back to main: the saved run, None (the page load
\* timed out, or no target text was found), or an exception it does not catch.
RunResults == {"saved", "none"}

InitMain ==
    /\ GenIdle
    /\ ExtIdle
    /\ AcIdle
    /\ main_pc = "for"
    /\ iterations \in 0..MaxIterations
    /\ iter = 0
    /\ started = <<>>
    /\ outcomes = <<>>
    /\ interrupted = FALSE

\* Line 344: range(1, iterations + 1) yields the next index, and line 346
\* calls run_iteration with it
StartIteration ==
    /\ main_pc = "for" /\ iter < iterations
    /\ iter' = iter + 1
    /\ started' = Append(started, iter + 1)
    /\ main_pc' = "run"
    /\ UNCHANGED <<iterations, outcomes, interrupted, genVars, extVars, acVars>>

\* Line 344: the range is exhausted
LoopEnd ==
    /\ main_pc = "for" /\ iter >= iterations
    /\ main_pc' = "done"
    /\ UNCHANGED <<iterations, iter, started, outcomes, interrupted, genVars, extVars, acVars>>

\* Line 346: run_iteration returns (its value is dropped)
RunReturns ==
    /\ main_pc = "run"
    /\ \E r \in RunResults : outcomes' = Append(outcomes, r)
    /\ main_pc' = "sleep"
    /\ UNCHANGED <<iterations, iter, started, interrupted, genVars, extVars, acVars>>

\* Lines 346, 351: run_iteration raises an Exception
RunRaises ==
    /\ main_pc = "run"
    /\ outcomes' = Append(outcomes, "exception")
    /\ main_pc' = "handler"
    /\ UNCHANGED <<iterations, iter, started, interrupted, genVars, extVars, acVars>>

\* Line 347: time.sleep(0.5) is over
SleepDone ==
    /\ main_pc = "sleep"
    /\ main_pc' = "for"
    /\ UNCHANGED <<iterations, iter, started, outcomes, interrupted, genVars, extVars, acVars>>

\* the handler leaves the loop instead of continuing it
HandleExceptionBreaks ==
    /\ main_pc = "handler"
    /\ main_pc' = "done"
    /\ UNCHANGED <<iterations, iter, started, outcomes, interrupted, genVars, extVars, acVars>>

\* Lines 351-356: the error is printed, then `continue`
HandleException ==
    /\ main_pc = "handler"
    /\ main_pc' = "for"
    /\ UNCHANGED <<iterations, iter, started, outcomes, interrupted, genVars, extVars, acVars>>

\* Lines 348-350: Ctrl-C inside the try block (in run_iteration or in the
\* sleep): "Interrupted." and `break`
InterruptInTry ==
    /\ main_pc \in {"run", "sleep"}
    /\ interrupted' = TRUE
    /\ outcomes' = IF main_pc = "run" THEN Append(outcomes, "interrupt") ELSE outcomes
    /\ main_pc' = "done"
    /\ UNCHANGED <<iterations, iter, started, genVars, extVars, acVars>>

\* Ctrl-C outside the try block (at the for statement, or inside the
\* Exception handler): nothing catches it and main is left
InterruptOutsideTry ==
    /\ main_pc \in {"for", "handler"}
    /\ interrupted' = TRUE
    /\ main_pc' = "aborted"
    /\ UNCHANGED <<iterations, iter, started, outcomes, genVars, extVars, acVars>>

\* the steps of the program itself
MainStep ==
    \/ StartIteration
    \/ LoopEnd
    \/ RunReturns
    \/ RunRaises
    \/ SleepDone
    \/ HandleException

NextMain ==
    \/ MainStep
    \/ InterruptInTry
    \/ InterruptOutsideTry

SpecMain == InitMain /\ [][NextMain]_vars

\* main is a sequential program: while it has a step to take and is not
\* interrupted, it takes it (run_iteration and the sleep come to an end).
FairSpecMain == SpecMain /\ WF_vars(MainStep)

----------------------------------------------------------------------------
(* analysis/feature_extractor.py *)
(* Stored timestamps are counted in hundredths of a second, so that the    *)
(* extractor's conversions to seconds and to milliseconds are visible.     *)
(* Quotients are kept as fractions <<numerator, denominator>>.             *)

KeyEvent(k, t) == [key |-> k, timestamp |-> t, action |-> "keypress"]
BackEvent(t)   == [key |-> "Backspace", timestamp |-> t, action |-> "backspace"]

RunRecord(ks) == [valid |-> TRUE, doc |-> [meta |-> "meta", keystroke_log |-> ks]]

\* "the cat" typed at 0.00, 0.03, 0.08, 0.10, 0.15, 0.20 and 0.25 s
TheCatLog ==
    << KeyEvent("t", 0), KeyEvent("h", 3), KeyEvent("e", 8), KeyEvent(" ", 10),
       KeyEvent("c", 15), KeyEvent("a", 20), KeyEvent("t", 25) >>

\* "abc" typed by human_like with a mistake corrected at the second letter
CorrectedLog ==
    << KeyEvent("a", 0), KeyEvent("x", 5), BackEvent(9), KeyEvent("b", 11),
       KeyEvent("c", 20) >>

\* named keys beside characters
ShiftEnterLog == << KeyEvent("Shift", 0), KeyEvent("A", 2), KeyEvent("Enter", 5) >>

\* an event that lost its timestamp
UnstampedLog == << KeyEvent("a", 1), [key |-> "b", action |-> "keypress"], KeyEvent("c", 4) >>

\* a JSON object without a keystroke_log, and a file that is not JSON at all
NoLogRecord   == [valid |-> TRUE, doc |-> [meta |-> "meta"]]
InvalidRecord == [valid |-> FALSE]

StoredRecords ==
    { RunRecord(TheCatLog), RunRecord(CorrectedLog), RunRecord(ShiftEnterLog),
      RunRecord(UnstampedLog), NoLogRecord, InvalidRecord }

RawDirs == UNION { [1..n -> StoredRecords] : n \in 0..MaxFiles }

Zero == <<0, 1>>
Frac(n, d) == <<n, d>>
FracEq(a, b) == a[1] * b[2] = b[1] * a[2]

RECURSIVE Select(_, _)
\* [e for e in xs if keep(e)] for a set `keep` of positions
Select(xs, keep) ==
    IF xs = <<>> THEN <<>>
    ELSE LET n == Len(xs)
             front == Select(SubSeq(xs, 1, n - 1), keep)
         IN IF n \in keep THEN Append(front, xs[n]) ELSE front

RECURSIVE Sum(_)
Sum(xs) == IF xs = <<>> THEN 0 ELSE xs[1] + Sum(Tail(xs))

SeqMin(xs) == CHOOSE m \in { xs[k] : k \in DOMAIN xs } : \A k \in DOMAIN xs : m <= xs[k]
SeqMax(xs) == CHOOSE m \in { xs[k] : k \in DOMAIN xs } : \A k \in DOMAIN xs : m >= xs[k]

\* k.get("key"): None when the event has no key
KeyOf(k) == IF "key" \in DOMAIN k THEN k.key ELSE "None"

\* Line 50: the timestamps of all the events that carry one
Timestamps(ks) ==
    LET stamped == Select(ks, { n \in DOMAIN ks : "timestamp" \in DOMAIN ks[n] })
    IN [n \in DOMAIN stamped |-> stamped[n].timestamp]

\* Lines 19-22: (ts_list[i+1] - ts_list[i]) * 1000.0, in milliseconds
inter_key_intervals(ts_list) ==
    IF Len(ts_list) < 2 THEN <<>>
    ELSE [n \in 1..(Len(ts_list) - 1) |-> (ts_list[n + 1] - ts_list[n]) * 10]

BurstThresholdMs == 30

\* an interval of exactly the threshold counted as a burst
BurstyInclusive(x) == x <= BurstThresholdMs

\* Line 57: x < 30.0
Bursty(x) == x < BurstThresholdMs

\* Line 57
BurstFraction(ikis) ==
    IF ikis = <<>> THEN Zero
    ELSE Frac(Cardinality({ n \in DOMAIN ikis : Bursty(ikis[n]) }), Len(ikis))

NotTyped == {"Backspace", "Shift", "Enter"}

\* Lines 48-79: the feature row of one record; duration_s is a fraction of
\* seconds. The deviation, the median and the autocorrelation are left out
\* of the row (autocorr_lag1 is modelled on its own below).
FeatureRow(n, d) ==
    LET ks == IF "keystroke_log" \in DOMAIN d THEN d.keystroke_log ELSE <<>>
        timestamps == Timestamps(ks)
        keys == [k \in DOMAIN ks |-> KeyOf(ks[k])]
        ikis == inter_key_intervals(timestamps)
        chars_typed == Cardinality({ k \in DOMAIN keys : keys[k] \notin NotTyped })
        duration == IF Len(timestamps) >= 2
                      THEN timestamps[Len(timestamps)] - timestamps[1] ELSE 0
        backspaces == Cardinality({ k \in DOMAIN keys : keys[k] = "Backspace" })
    IN [ json_file |-> n,
         chars_typed |-> chars_typed,
         duration_s |-> Frac(duration, 100),
         computed_wpm |-> IF duration > 0
                            THEN Frac(chars_typed * 60 * 100, 5 * duration) ELSE Zero,
         ikis |-> ikis,
         mean_iki_ms |-> IF ikis = <<>> THEN Zero ELSE Frac(Sum(ikis), Len(ikis)),
         min_iki_ms |-> IF ikis = <<>> THEN 0 ELSE SeqMin(ikis),
         max_iki_ms |-> IF ikis = <<>> THEN 0 ELSE SeqMax(ikis),
         backspace_count |-> backspaces,
         backspace_rate |-> IF chars_typed > 0 THEN Frac(backspaces, chars_typed) ELSE Zero,
         burst_fraction |-> BurstFraction(ikis) ]

InitExt ==
    /\ GenIdle
    /\ MainIdle
    /\ AcIdle
    /\ raw_dir \in RawDirs
    /\ ext_pc = "loop"
    /\ file_idx = 0
    /\ rows = <<>>
    /\ csv = NoFile

\* Lines 45-80: the next path is opened, parsed and turned into a row
ExtractRecord ==
    /\ ext_pc = "loop" /\ file_idx < Len(raw_dir)
    /\ raw_dir[file_idx + 1].valid
    /\ rows' = Append(rows, FeatureRow(file_idx + 1, raw_dir[file_idx + 1].doc))
    /\ file_idx' = file_idx + 1
    /\ UNCHANGED <<raw_dir, ext_pc, csv, genVars, mainVars, acVars>>

\* Line 47: json.load raises on a file that is not JSON; nothing catches it
LoadFails ==
    /\ ext_pc = "loop" /\ file_idx < Len(raw_dir)
    /\ ~raw_dir[file_idx + 1].valid
    /\ ext_pc' = "crashed"
    /\ UNCHANGED <<raw_dir, file_idx, rows, csv, genVars, mainVars, acVars>>

\* Lines 82-85: the rows are written to features.csv
WriteDataset ==
    /\ ext_pc = "loop" /\ file_idx = Len(raw_dir)
    /\ rows # <<>>
    /\ csv' = rows
    /\ ext_pc' = "done"
    /\ UNCHANGED <<raw_dir, file_idx, rows, genVars, mainVars, acVars>>

\* Lines 86-87: no rows, nothing is written
NoLogsFound ==
    /\ ext_pc = "loop" /\ file_idx = Len(raw_dir)
    /\ rows = <<>>
    /\ ext_pc' = "done"
    /\ UNCHANGED <<raw_dir, file_idx, rows, csv, genVars, mainVars, acVars>>

NextExt ==
    \/ ExtractRecord
    \/ LoadFails
    \/ WriteDataset
    \/ NoLogsFound

SpecExt == InitExt /\ [][NextExt]_vars

----------------------------------------------------------------------------
(* analysis/feature_extractor.py: autocorr_lag1 *)
(* numpy computes in binary floating point: every sum, difference, product *)
(* and quotient is rounded to the nearest number with a fixed count of     *)
(* significant bits (ties to the even mantissa).  The model keeps the      *)
(* arithmetic and shortens the mantissa from 53 bits to MantissaBits, so   *)
(* that rounding shows on small numbers.  A number is a fraction           *)
(* <<n, d>> with d a power of two.                                         *)

RECURSIVE Pow2(_)
Pow2(k) == IF k = 0 THEN 1 ELSE 2 * Pow2(k - 1)

Abs(n) == IF n < 0 THEN -n ELSE n

RECURSIVE Reduce(_, _)
\* the fraction n/d in lowest terms, d a power of two
Reduce(n, d) ==
    IF n = 0 THEN Zero
    ELSE IF d > 1 /\ n % 2 = 0 THEN Reduce(n \div 2, d \div 2)
    ELSE <<n, d>>

RECURSIVE RoundMag(_, _, _)
\* a/d (a > 0, d > 0) rounded to MantissaBits significant bits, as
\* <<mantissa, exponent>>: the exponent is moved until the quotient has its
\* leading bit in place, then the remainder decides the last bit.
RoundMag(a, d, e) ==
    IF a >= Pow2(MantissaBits) * d THEN RoundMag(a, 2 * d, e + 1)
    ELSE IF a < Pow2(MantissaBits - 1) * d THEN RoundMag(2 * a, d, e - 1)
    ELSE LET q == a \div d
             r == a % d
             up == 2 * r > d \/ (2 * r = d /\ q % 2 = 1)
         IN <<IF up THEN q + 1 ELSE q, e>>

\* the floating-point number nearest to the fraction n/d
Round(n, d) ==
    IF n = 0 THEN Zero
    ELSE LET me == RoundMag(Abs(n), d, 0)
             m == IF n < 0 THEN -me[1] ELSE me[1]
         IN IF me[2] >= 0 THEN Reduce(m * Pow2(me[2]), 1)
            ELSE Reduce(m, Pow2(-me[2]))

FAdd(a, b) == Round(a[1] * b[2] + b[1] * a[2], a[2] * b[2])
FSub(a, b) == Round(a[1] * b[2] - b[1] * a[2], a[2] * b[2])
FMul(a, b) == Round(a[1] * b[1], a[2] * b[2])
\* a / b for b # 0
FDiv(a, b) ==
    IF b[1] > 0 THEN Round(a[1] * b[2], a[2] * b[1])
    ELSE Round(-(a[1] * b[2]), a[2] * (-b[1]))

RECURSIVE FSumFrom(_, _)
\* ndarray.sum() on fewer than 8 elements: added left to right
FSumFrom(acc, xs) ==
    IF xs = <<>> THEN acc ELSE FSumFrom(FAdd(acc, xs[1]), Tail(xs))

FSum(xs) == FSumFrom(Zero, xs)

\* Line 39: denom == 0
ZeroDenominator(denom) == denom[1] = 0

\* Lines 33-41
autocorr_lag1(xs) ==
    IF Len(xs) < 2 THEN Zero
    ELSE LET mean == FDiv(FSum(xs), <<Len(xs), 1>>)
             x == [k \in DOMAIN xs |-> FSub(xs[k], mean)]
             denom == FSum([k \in DOMAIN x |-> FMul(x[k], x[k])])
         IN IF ZeroDenominator(denom) THEN Zero
            ELSE FDiv(FSum([k \in 1..(Len(x) - 1) |-> FMul(x[k + 1], x[k])]), denom)

\* inter-key intervals in milliseconds, each one a floating-point number
SeriesValues == { <<4, 1>>, <<5, 1>>, <<6, 1>>, <<7, 1>> }

InitAc ==
    /\ GenIdle
    /\ MainIdle
    /\ ExtIdle
    /\ series \in UNION { [1..n -> SeriesValues] : n \in 0..MaxSeriesLen }
    /\ ac_pc = "call"
    /\ ac_result = Zero

\* Line 76: autocorr_lag1(ikis)
CallAutocorr ==
    /\ ac_pc = "call"
    /\ ac_result' = autocorr_lag1(series)
    /\ ac_pc' = "returned"
    /\ UNCHANGED <<series, genVars, mainVars, extVars>>

NextAc == CallAutocorr

SpecAc == InitAc /\ [][NextAc]_vars

----------------------------------------------------------------------------
(* Claims about type_text_profile (SpecGen) *)

Backspaces(lg) == { k \in DOMAIN lg : lg[k].action = "backspace" }

RECURSIVE Strip(_)
\* the log with every backspace deleted together with the event before it
Strip(lg) ==
    IF lg = <<>> THEN <<>>
    ELSE LET n == Len(lg)
             front == Strip(SubSeq(lg, 1, n - 1))
         IN IF lg[n].action = "backspace"
              THEN (IF front = <<>> THEN <<>> ELSE SubSeq(front, 1, Len(front) - 1))
              ELSE Append(front, lg[n])

\* the 0-based text position being typed when the event at index k was logged
PositionAt(lg, k) == Len(Strip(SubSeq(lg, 1, k - 1)))

\* C2: when neither the hidden input nor the body can be clicked, the run is
\* aborted with a focus failure and nothing is emitted or logged.
C2_FocusFailureAborts ==
    focus = "none" => (gen_pc = "raised" /\ exc = "FocusError" /\ log = <<>>)

\* C3: a failing emission never fails the run: type_text_profile never
\* raises because the key could not be emitted.
C3_EmissionFailureTolerated ==
    ~(gen_pc = "raised" /\ exc = "EmissionError")

\* C4: in a returned log the timestamps are non-decreasing, and every
\* backspace lies strictly after the keypress before it and strictly before
\* the keypress after it.
C4_BackspaceStrictlyBetween ==
    gen_pc = "returned" =>
        /\ \A k \in 1..(Len(log) - 1) : log[k].timestamp <= log[k + 1].timestamp
        /\ \A k \in Backspaces(log) :
             /\ k > 1 => log[k - 1].timestamp < log[k].timestamp
             /\ k < Len(log) => log[k].timestamp < log[k + 1].timestamp

\* C7: the wrong key of an injected mistake (the event before a backspace)
\* is a lowercase letter other than the correct character (the event after).
C7_WrongKeyDiffers ==
    \A k \in Backspaces(log) :
        (k > 1 /\ k < Len(log)) =>
            /\ log[k - 1].key \in Lowercase
            /\ log[k - 1].key # log[k + 1].key

\* C10: the shape of a returned log, with n = min(len(text), max_chars):
\* superhuman and bot_obvious log exactly the keypresses text[0..n-1];
\* under human_like every backspace sits between a lowercase keypress and
\* the keypress of the character of its position, never at the last
\* position of the text, and stripping the corrections leaves the
\* keypresses text[0..n-1].
C10_ReturnedLogShape ==
    gen_pc = "returned" =>
        LET n == Min(Len(text), args.max_chars)
            kept == Strip(log)
        IN
        /\ profile \in {"superhuman", "bot_obvious"} =>
             /\ Len(log) = n
             /\ \A k \in 1..n : log[k].action = "keypress" /\ log[k].key = text[k]
        /\ profile = "human_like" =>
             /\ \A k \in Backspaces(log) :
                  /\ k > 1 /\ k < Len(log)
                  /\ log[k].key = "Backspace"
                  /\ log[k - 1].action = "keypress" /\ log[k - 1].key \in Lowercase
                  /\ log[k + 1].action = "keypress"
                  /\ log[k + 1].key = CharAt(PositionAt(log, k + 1))
                  /\ PositionAt(log, k + 1) + 1 < Len(text)
             /\ Len(kept) = n
             /\ \A k \in 1..n : kept[k].action = "keypress" /\ kept[k].key = text[k]

\* a returned human_like log with a correction in it
C10_Witness ==
    /\ gen_pc = "returned" /\ profile = "human_like"
    /\ Backspaces(log) # {}
    /\ Len(Strip(log)) = Len(text)

----------------------------------------------------------------------------
(* Claims about main (FairSpecMain) *)

\* C6: iterations run one after another in index order; a failed iteration
\* does not keep the later ones from starting; every index 1..N is
\* eventually started unless a keyboard interrupt occurs, and after an
\* interrupt no further iteration is started.
C6_IterationsIsolated ==
    /\ [](/\ started = [k \in 1..Len(started) |-> k]
          /\ Len(started) <= iterations
          /\ Len(outcomes) = IF main_pc = "run" THEN Len(started) - 1 ELSE Len(started))
    /\ [][interrupted => started' = started]_vars
    /\ <>(interrupted \/ Len(started) = iterations)

\* an iteration failed (an exception, or None) and a later one was started
C6_Witness ==
    /\ ~interrupted
    /\ \E k \in DOMAIN outcomes :
         outcomes[k] = "exception" /\ k < Len(started)
    /\ \E k \in DOMAIN outcomes :
         outcomes[k] = "none" /\ k < Len(started)

----------------------------------------------------------------------------
(* Claims about the feature extractor (SpecExt) *)

\* the timestamps of the keypress events alone
KeypressTimestamps(ks) ==
    Timestamps(Select(ks, { n \in DOMAIN ks : ks[n].action = "keypress" }))

LogOf(rec) ==
    IF "keystroke_log" \in DOMAIN rec.doc THEN rec.doc.keystroke_log ELSE <<>>

\* C1: the intervals of a row are taken between consecutive keypress events;
\* the timestamps of backspace events are not used.
C1_IntervalsFromKeypressesOnly ==
    \A k \in DOMAIN rows :
        rows[k].ikis =
            inter_key_intervals(KeypressTimestamps(LogOf(raw_dir[rows[k].json_file])))

WellFormed(rec) ==
    /\ rec.valid
    /\ "keystroke_log" \in DOMAIN rec.doc
    /\ \A n \in DOMAIN rec.doc.keystroke_log :
         {"key", "timestamp", "action"} \subseteq DOMAIN rec.doc.keystroke_log[n]

WellFormedFiles == { n \in DOMAIN raw_dir : WellFormed(raw_dir[n]) }

\* C5: when the batch ends, it has skipped every malformed or incomplete
\* record, has one row for each well-formed record, in order, and has
\* written the dataset.
C5_BadRecordsSkipped ==
    ext_pc \in {"done", "crashed"} =>
        /\ ext_pc = "done"
        /\ [k \in DOMAIN rows |-> rows[k].json_file]
             = Select([n \in DOMAIN raw_dir |-> n], WellFormedFiles)
        /\ WellFormedFiles # {} => csv = rows

\* C9: burst_fraction counts the intervals strictly below 30 ms over the
\* number of intervals (0 when there are none), and the row of "the cat"
\* is chars_typed = 7, duration 0.25 s, 336 wpm, no backspace, burst 1/6.
C9_BurstFractionStrict ==
    \A k \in DOMAIN rows :
        LET row == rows[k] IN
        /\ IF row.ikis = <<>>
             THEN row.burst_fraction[1] = 0
             ELSE /\ row.burst_fraction[1]
                       = Cardinality({ n \in DOMAIN row.ikis : row.ikis[n] < 30 })
                  /\ row.burst_fraction[2] = Len(row.ikis)
        /\ raw_dir[row.json_file] = RunRecord(TheCatLog) =>
             /\ row.chars_typed = 7
             /\ FracEq(row.duration_s, <<1, 4>>)
             /\ FracEq(row.computed_wpm, <<336, 1>>)
             /\ row.backspace_count = 0
             /\ row.ikis = <<30, 50, 20, 50, 50, 50>>
             /\ FracEq(row.burst_fraction, <<1, 6>>)

\* the dataset was written with the row of "the cat" in it
C9_Witness ==
    /\ ext_pc = "done" /\ csv # NoFile
    /\ \E k \in DOMAIN rows : raw_dir[rows[k].json_file] = RunRecord(TheCatLog)

----------------------------------------------------------------------------
(* Claims about autocorr_lag1 (SpecAc) *)

Constant(xs) == \A k \in DOMAIN xs : xs[k] = xs[1]

\* xs alternates between two distinct values
Alternating(xs) ==
    /\ Len(xs) >= 2
    /\ xs[1] # xs[2]
    /\ \A k \in DOMAIN xs : xs[k] = xs[IF k % 2 = 1 THEN 1 ELSE 2]

\* C8: autocorr_lag1 returns 0 for a series of fewer than 2 values and for
\* a constant series, and a negative value for a series of at least 2
\* values that alternates between two distinct values.
C8_AutocorrSigns ==
    ac_pc = "returned" =>
        /\ Len(series) < 2 => ac_result[1] = 0
        /\ Constant(series) => ac_result[1] = 0
        /\ Alternating(series) => ac_result[1] < 0

====
